---- MODULE Spec2Model ----
(***************************************************************************)
(* audiosetdl: the ffmpeg retry loop, the per-segment download and the     *)
(* job scheduler of download_audioset.py, as a state machine.              *)
(*                                                                         *)
(* Times are whole seconds; str() and float() are modelled over that grid  *)
(* by ToString and its inverse.  A path is the string of the parts the code *)
(* joins; the file system is a function from the paths that exist to what  *)
(* was last written there.                                                 *)
(***************************************************************************)
EXTENDS Integers, Sequences, FiniteSets, TLC

\* ------------------------------------------------------------- bounds
MaxRetries == 2
MaxDrift == 1
MaxNum == 12
MaxRows == 2
MaxWorkers == 2

Workers == 1..MaxWorkers
NumRange == (0 - MaxNum)..MaxNum
Drifts == ((0 - MaxDrift)..MaxDrift) \ {0}

\* ------------------------------------------------------ python helpers
\* str(x) of a number
str(n) == ToString(n)

\* whether float(s) succeeds (otherwise it raises ValueError)
is_float(s) == \E n \in NumRange : ToString(n) = s

\* float(s)
float(s) == CHOOSE n \in NumRange : ToString(n) = s

\* list.index(x): the first position of x, 0 standing for ValueError
index(seq, x) ==
    IF \E i \in 1..Len(seq) : seq[i] = x
    THEN CHOOSE i \in 1..Len(seq) :
            seq[i] = x /\ \A j \in 1..(i - 1) : seq[j] # x
    ELSE 0

\* os.path.exists(p)
exists(files, p) == p \in DOMAIN files

\* os.remove(p) of an existing file
remove(files, p) == [q \in (DOMAIN files) \ {p} |-> files[q]]

\* a file written (created or replaced) at p
write(files, p, c) == [q \in (DOMAIN files) \cup {p} |-> IF q = p THEN c ELSE files[q]]

\* ----------------------------------------------------------- variables
VARIABLES
    cfg,      \* ffmpeg_cfg and num_workers of this run
    env,      \* what the interpreter provides: collections.Iterable, the name pandas
    fs,       \* the output directory
    csv,      \* the rows of the segment file
    ledger,   \* failures.csv: whether the file is there, and the ids it lists
    sched,    \* download_subset_videos: its position and locals
    pc,       \* each worker's position
    job,      \* each worker's process_job arguments
    loc,      \* each worker's download_yt_video locals
    ff,       \* each worker's ffmpeg() locals
    hist,     \* each worker's attempts of the current ffmpeg() call
    calls,    \* each worker's finished ffmpeg() calls of the current job
    sel       \* stream selection called on its own: its arguments and results

vars == <<cfg, env, fs, csv, ledger, sched, pc, job, loc, ff, hist, calls, sel>>

\* no call of the stream selection on its own
NoSel == [formats |-> <<>>, video_mode |-> "", audio |-> <<>>, video |-> <<>>]

\* no failures.csv in the working directory
NoLedger == [present |-> FALSE, ids |-> {}]

\* --------------------------------------------------- the command runner
\* One attempt's outcome, as run_command and the validator report it:
\*   "pass"        exit 0 and the validator (if any) accepts
\*   "duration"    exit 0, validator raises FfmpegIncorrectDurationError(target, actual)
\*   "unopenable"  exit 0, validator raises FfmpegUnopenableFileError
\*   "invalid"     exit 0, validator raises FfmpegValidationError
\*   "exists"      SubprocessError, stderr ends 'already exists. Exiting.'
\*   "http"        SubprocessError, stderr matches HTTP_ERR_PATTERN
\*   "error"       SubprocessError, any other stderr
\*   "timeout"     the timeout fired (reported as a process error)
\* partial: whether a failed command left a file at the output path.
Outcome(k, p, t, a) == [kind |-> k, partial |-> p, target |-> t, actual |-> a]

ProcessErrors == {"http", "error", "timeout"}
ExitZero == {"pass", "duration", "unopenable", "invalid"}

\* ffmpeg's -n: never overwrite, exit at once when the output file exists
no_overwrite(f) == index(f.input_args, "-n") # 0 \/ index(f.output_args, "-n") # 0

\* the sources a command reads: a URL is a string, a local file a path
inputs_available(f, files) ==
    \A i \in 1..Len(f.sources) : f.local => exists(files, f.sources[i])

\* what the validator can report about an output of expected duration t
validation_outcomes(t) ==
    {Outcome("pass", FALSE, 0, 0), Outcome("unopenable", FALSE, 0, 0),
     Outcome("invalid", FALSE, 0, 0)}
    \cup {Outcome("duration", FALSE, t, t - d) : d \in Drifts}

\* the outcomes the running attempt of f can end in
attempt_outcomes(f, files) ==
    IF f.blocked
    THEN {Outcome("exists", FALSE, 0, 0)}
    ELSE {Outcome(k, p, 0, 0) :
             k \in (IF f.local THEN ProcessErrors \ {"http"} ELSE ProcessErrors),
             p \in BOOLEAN}
         \cup (IF ~inputs_available(f, files) THEN {}
               ELSE IF f.validate THEN validation_outcomes(f.expected)
               ELSE {Outcome("pass", FALSE, 0, 0)})

\* what the validator would say of the file the command wrote
quality(f, o) ==
    IF o.kind = "pass" THEN (IF f.validate THEN "valid" ELSE "unchecked")
    ELSE IF o.kind = "duration" THEN "wrong_duration"
    ELSE o.kind

\* the output directory after the command of f ended in o
run_command(f, files, o) ==
    IF o.kind \in ExitZero
    THEN write(files, f.output_path, [by |-> f.stage, q |-> quality(f, o)])
    ELSE IF o.kind \in ProcessErrors /\ o.partial
    THEN write(files, f.output_path, [by |-> f.stage, q |-> "partial"])
    ELSE files

\* ------------------------------------------------------------- ffmpeg()
NoCall == [status |-> "none"]

\* the loop over range(num_retries + 1): one attempt more than asked for
loop_head_one_more(f) ==
    IF f.attempt <= f.num_retries
    THEN [f EXCEPT !.status = "loop"]
    ELSE [f EXCEPT !.status = "returned", !.term = "exhausted", !.exhausted = TRUE]

\* for attempt in range(num_retries): ... else: LOGGER.error(...)
loop_head(f) ==
    IF f.attempt < f.num_retries
    THEN [f EXCEPT !.status = "loop"]
    ELSE [f EXCEPT !.status = "returned", !.term = "exhausted", !.exhausted = TRUE]

\* continue, or the end of the loop body
continue(f) == loop_head([f EXCEPT !.attempt = @ + 1])

\* break
break(f, how) == [f EXCEPT !.status = "returned", !.term = how]

\* an exception leaves ffmpeg()
raise(f, e) == [f EXCEPT !.status = "raised", !.term = "raised", !.exc = e]

\* the call: the input_path type test and the first loop head
ffmpeg(stage, ptype, sources, output_path, input_args, output_args, num_retries, validate, expected, iterable) ==
    LET f == [stage |-> stage, local |-> (ptype = "list"), sources |-> sources,
              inputs |-> [i \in 1..(2 * Len(sources)) |->
                             IF i % 2 = 1 THEN "-i" ELSE sources[i \div 2]],
              output_path |-> output_path,
              input_args |-> input_args, output_args |-> output_args,
              num_retries |-> num_retries, attempt |-> 0,
              validate |-> validate, expected |-> expected,
              last_err |-> "None", status |-> "loop", term |-> "",
              exc |-> "", exhausted |-> FALSE, blocked |-> FALSE,
              cmd |-> <<>>]
    IN  IF ptype = "str" THEN loop_head(f)
        ELSE IF ~iterable THEN raise(f, "AttributeError")
        ELSE IF ptype = "list" THEN loop_head(f)
        ELSE raise(f, "ValueError")

\* args = [ffmpeg_path] + input_args + inputs + output_args + [output_path, '-loglevel', log_level]
command_line(f) ==
    <<"ffmpeg">> \o f.input_args \o f.inputs \o f.output_args
                 \o <<f.output_path, "-loglevel", "error">>

\* the duration the command line of f carries: the value after the first '-t'
\* of its input_args part, else of its output_args part, else "none"
cmd_duration(f) ==
    LET i == index(f.input_args, "-t")
        j == index(f.output_args, "-t")
    IN  IF i # 0 /\ i + 1 <= Len(f.input_args) THEN f.cmd[1 + i + 1]
        ELSE IF j # 0 /\ j + 1 <= Len(f.output_args)
        THEN f.cmd[1 + Len(f.input_args) + Len(f.inputs) + j + 1]
        ELSE "none"

\* the Result of one handler: the call's locals, the files, whether os.remove ran
Result(f, files, removed) == [ff |-> f, fs |-> files, removed |-> removed]

\* run_command and the validator returned: break
on_success(f, files) == Result(break(f, "success"), files, FALSE)

\* on_SubprocessError without the os.remove of its last lines
on_SubprocessError_keeps_partial(f, files, o) ==
    LET g == [f EXCEPT !.last_err = o.kind]
    IN  IF o.kind = "exists" THEN Result(break(g, "exists"), files, FALSE)
        ELSE Result(continue(g), files, FALSE)

\* on_SubprocessError without the 'already exists. Exiting.' test
on_SubprocessError_exists_retried(f, files, o) ==
    LET g == [f EXCEPT !.last_err = o.kind]
    IN  IF o.kind = "http" THEN Result(continue(g), files, FALSE)
        ELSE IF exists(files, f.output_path)
        THEN Result(continue(g), remove(files, f.output_path), TRUE)
        ELSE Result(continue(g), files, FALSE)

\* except SubprocessError
on_SubprocessError(f, files, o) ==
    LET g == [f EXCEPT !.last_err = o.kind]
    IN  IF o.kind = "exists" THEN Result(break(g, "exists"), files, FALSE)
        ELSE IF o.kind = "http" THEN Result(continue(g), files, FALSE)
        ELSE IF exists(files, f.output_path)
        THEN Result(continue(g), remove(files, f.output_path), TRUE)
        ELSE Result(continue(g), files, FALSE)

\* adjust_duration with the sign of the correction reversed
adjust_duration_reversed(f, duration_diff) ==
    LET i == index(f.input_args, "-t")
        j == index(f.output_args, "-t")
    IN  IF i # 0 /\ i + 1 <= Len(f.input_args)
        THEN [f EXCEPT !.input_args[i + 1] = str(float(@) - duration_diff)]
        ELSE IF j # 0 /\ j + 1 <= Len(f.output_args)
        THEN [f EXCEPT !.output_args[j + 1] = str(float(@) - duration_diff)]
        ELSE raise(f, "ValueError")

\* input_args[duration_idx] = str(float(input_args[duration_idx]) + duration_diff),
\* falling back to output_args on ValueError
adjust_duration(f, duration_diff) ==
    LET i == index(f.input_args, "-t")
        j == index(f.output_args, "-t")
    IN  IF i # 0 /\ i + 1 > Len(f.input_args) THEN raise(f, "IndexError")
        ELSE IF i # 0 /\ is_float(f.input_args[i + 1])
        THEN [f EXCEPT !.input_args[i + 1] = str(float(@) + duration_diff)]
        ELSE IF j = 0 THEN raise(f, "ValueError")
        ELSE IF j + 1 > Len(f.output_args) THEN raise(f, "IndexError")
        ELSE IF ~is_float(f.output_args[j + 1]) THEN raise(f, "ValueError")
        ELSE [f EXCEPT !.output_args[j + 1] = str(float(@) + duration_diff)]

\* except FfmpegIncorrectDurationError
on_FfmpegIncorrectDurationError(f, files, o) ==
    LET g == [f EXCEPT !.last_err = o.kind]
        rm == f.attempt < f.num_retries - 1 /\ exists(files, f.output_path)
        files2 == IF rm THEN remove(files, f.output_path) ELSE files
        h == adjust_duration(g, o.target - o.actual)
    IN  IF h.status = "raised" THEN Result(h, files2, rm)
        ELSE Result(continue(h), files2, rm)

\* on_FfmpegUnopenableFileError keeping the file on the last attempt
on_FfmpegUnopenableFileError_keeps_last(f, files, o) ==
    LET g == [f EXCEPT !.last_err = o.kind]
        rm == f.attempt < f.num_retries - 1 /\ exists(files, f.output_path)
    IN  Result(continue(g), IF rm THEN remove(files, f.output_path) ELSE files, rm)

\* except FfmpegUnopenableFileError
on_FfmpegUnopenableFileError(f, files, o) ==
    LET g == [f EXCEPT !.last_err = o.kind]
    IN  IF exists(files, f.output_path)
        THEN Result(continue(g), remove(files, f.output_path), TRUE)
        ELSE Result(continue(g), files, FALSE)

\* on_FfmpegValidationError removing the output on the last attempt too
on_FfmpegValidationError_always_remove(f, files, o) ==
    LET g == [f EXCEPT !.last_err = o.kind]
        rm == exists(files, f.output_path)
    IN  Result(continue(g), IF rm THEN remove(files, f.output_path) ELSE files, rm)

\* except FfmpegValidationError
on_FfmpegValidationError(f, files, o) ==
    LET g == [f EXCEPT !.last_err = o.kind]
        rm == f.attempt < f.num_retries - 1 /\ exists(files, f.output_path)
    IN  Result(continue(g), IF rm THEN remove(files, f.output_path) ELSE files, rm)

\* one pass of the loop body after the command ended in o
attempt(f, files, o) ==
    LET after == run_command(f, files, o)
    IN  CASE o.kind = "pass" -> on_success(f, after)
          [] o.kind = "duration" -> on_FfmpegIncorrectDurationError(f, after, o)
          [] o.kind = "unopenable" -> on_FfmpegUnopenableFileError(f, after, o)
          [] o.kind = "invalid" -> on_FfmpegValidationError(f, after, o)
          [] OTHER -> on_SubprocessError(f, after, o)

\* ------------------------------------------------- the attempt, as steps
\* run_command starts: the command line is built and the process launched
run_command_start(w) ==
    /\ pc[w] = "ffmpeg"
    /\ ff[w].status = "loop"
    /\ ff' = [ff EXCEPT ![w] = [@ EXCEPT
                 !.status = "running",
                 !.cmd = command_line(ff[w]),
                 !.blocked = no_overwrite(ff[w]) /\ exists(fs, ff[w].output_path)]]
    /\ UNCHANGED <<cfg, env, fs, csv, ledger, sched, pc, job, loc, hist, calls, sel>>

\* the command ends, the validator runs and the matching handler acts
attempt_end(w) ==
    /\ pc[w] = "ffmpeg"
    /\ ff[w].status = "running"
    /\ \E o \in attempt_outcomes(ff[w], fs) :
          LET r == attempt(ff[w], fs, o)
          IN  /\ ff' = [ff EXCEPT ![w] = r.ff]
              /\ fs' = r.fs
              /\ hist' = [hist EXCEPT ![w] = Append(@,
                            [kind |-> o.kind, removed |-> r.removed,
                             cmd |-> ff[w].cmd, t |-> cmd_duration(ff[w]),
                             diff |-> o.target - o.actual,
                             left |-> exists(r.fs, ff[w].output_path),
                             same |-> r.fs = fs])]
    /\ UNCHANGED <<cfg, env, csv, ledger, sched, pc, job, loc, calls, sel>>


\* ------------------------------------------------------ stream selection
\* A format is a record with acodec, vcodec, protocol, url and, when the
\* resolver gives them, abr, width, tbr.  A value that may be None is a
\* sequence: <<>> for None, <<x>> for x.
None == <<>>

Returned(v) == [exc |-> "", val |-> v]
Raised(e) == [exc |-> e, val |-> None]

format_is_audio_only(format) == format.acodec # "none" /\ format.vcodec = "none"

format_is_video_only(format) == format.acodec = "none" /\ format.vcodec # "none"

format_is_video_with_audio(format) == format.acodec # "none" /\ format.vcodec # "none"

format_is_not_dash(format) == format.protocol # "http_dash_segments"

\* filter_formats that lets every stream through
filter_formats_keeps_dash(formats) == formats

\* list(filter(format_is_not_dash, formats))
filter_formats(formats) == SelectSeq(formats, format_is_not_dash)

\* the order of Python tuples of numbers
RECURSIVE key_less(_, _)
key_less(a, b) ==
    IF a = <<>> \/ b = <<>> THEN Len(a) < Len(b)
    ELSE IF Head(a) = Head(b) THEN key_less(Tail(a), Tail(b))
    ELSE Head(a) < Head(b)

\* e put into a descending list in front of the items with an equal key:
\* the order of a sort that is not stable
RECURSIVE insert_before_equal(_, _)
insert_before_equal(s, e) ==
    IF s = <<>> THEN <<e>>
    ELSE IF ~key_less(e.key, Head(s).key) THEN <<e>> \o s
    ELSE <<Head(s)>> \o insert_before_equal(Tail(s), e)

\* e put into a descending list, behind every item whose key is not less
RECURSIVE insert(_, _)
insert(s, e) ==
    IF s = <<>> THEN <<e>>
    ELSE IF key_less(Head(s).key, e.key) THEN <<e>> \o s
    ELSE <<Head(s)>> \o insert(Tail(s), e)

\* sorted(items, key=..., reverse=True) of items that carry their key: stable
RECURSIVE sorted_reverse(_)
sorted_reverse(items) ==
    IF items = <<>> THEN <<>>
    ELSE insert(sorted_reverse(SubSeq(items, 1, Len(items) - 1)), items[Len(items)])

items_of(s) == [i \in 1..Len(s) |-> s[i].item]

\* sort_audio_formats without reverse=True: lowest 'abr' first
sort_audio_formats_ascending(formats) ==
    LET f == SelectSeq(formats, format_is_audio_only)
        s == sorted_reverse([i \in 1..Len(f) |->
                                [key |-> <<IF "abr" \in DOMAIN f[i] THEN 0 - f[i].abr ELSE 0>>,
                                 item |-> f[i]]])
    IN  items_of(s)

\* sorted(filter(format_is_audio_only, formats), key=lambda f: f.get('abr', 0), reverse=True)
sort_audio_formats(formats) ==
    LET f == SelectSeq(formats, format_is_audio_only)
    IN  items_of(sorted_reverse(
            [i \in 1..Len(f) |->
                [key |-> <<IF "abr" \in DOMAIN f[i] THEN f[i].abr ELSE 0>>,
                 item |-> f[i]]]))

get_best_audio_format(formats) ==
    LET s == sort_audio_formats(filter_formats(formats))
    IN  IF Len(s) # 0 THEN <<s[1]>> ELSE None

\* sorted(filter(pred, formats), key=(f['width'], f['tbr']), reverse=True);
\* f[k] raises KeyError when a filtered format lacks the key
sort_video_formats(formats, with_audio) ==
    LET f == IF with_audio THEN SelectSeq(formats, format_is_video_with_audio)
             ELSE SelectSeq(formats, format_is_video_only)
    IN  IF \E i \in 1..Len(f) : ~({"width", "tbr"} \subseteq DOMAIN f[i])
        THEN Raised("KeyError")
        ELSE Returned(items_of(sorted_reverse(
                [i \in 1..Len(f) |->
                    [key |-> <<f[i].width, f[i].tbr>>, item |-> f[i]]])))

VideoModes == {"", "bestvideo", "bestvideowithaudio", "bestvideoaudio",
               "bestvideoaudionoaudio", "best"}

\* get_best_video_format falling back to a video-only stream in the
\* 'bestvideoaudio' modes
get_best_video_format_falls_back(formats, video_mode) ==
    LET fmts == filter_formats(formats)
        video_noaudio_formats == sort_video_formats(fmts, FALSE)
        video_audio_formats == sort_video_formats(fmts, TRUE)
    IN  IF video_noaudio_formats.exc # "" THEN Raised(video_noaudio_formats.exc)
        ELSE IF video_audio_formats.exc # "" THEN Raised(video_audio_formats.exc)
        ELSE IF video_mode = "" THEN Returned(None)
        ELSE IF video_mode \in {"bestvideo", "bestvideowithaudio", "bestvideoaudio",
                                "bestvideoaudionoaudio"}
        THEN IF Len(video_audio_formats.val) # 0
             THEN Returned(<<video_audio_formats.val[1]>>)
             ELSE IF Len(video_noaudio_formats.val) # 0
             THEN Returned(<<video_noaudio_formats.val[1]>>)
             ELSE Raised("IndexError")
        ELSE Raised("ValueError")

get_best_video_format(formats, video_mode) ==
    LET fmts == filter_formats(formats)
        video_noaudio_formats == sort_video_formats(fmts, FALSE)
        video_audio_formats == sort_video_formats(fmts, TRUE)
    IN  IF video_noaudio_formats.exc # "" THEN Raised(video_noaudio_formats.exc)
        ELSE IF video_audio_formats.exc # "" THEN Raised(video_audio_formats.exc)
        ELSE IF video_mode = "" THEN Returned(None)
        ELSE IF video_mode \in {"bestvideo", "bestvideowithaudio"}
        THEN IF Len(video_noaudio_formats.val) # 0
             THEN Returned(<<video_noaudio_formats.val[1]>>)
             ELSE IF Len(video_audio_formats.val) # 0
             THEN Returned(<<video_audio_formats.val[1]>>)
             ELSE Raised("IndexError")
        ELSE IF video_mode \in {"bestvideoaudio", "bestvideoaudionoaudio"}
        THEN IF Len(video_audio_formats.val) # 0
             THEN Returned(<<video_audio_formats.val[1]>>)
             ELSE Raised("IndexError")
        ELSE Raised("ValueError")


\* ------------------------------------------------------------ the paths
\* get_media_filename: <ytid>_<start in ms>_<end in ms>
get_media_filename(ytid, ts_start, ts_end) == <<ytid, ts_start * 1000, ts_end * 1000>>

\* os.path.join(dir, sub, name + suffix + '.' + ext)
Path(sub, name, suffix, ext) ==
    ToString([sub |-> sub, name |-> name, suffix |-> suffix, ext |-> ext])

\* ------------------------------------------------------ the stream resolver
AudioOnly(abr, url) ==
    [acodec |-> "opus", vcodec |-> "none", protocol |-> "https", url |-> url, abr |-> abr]

VideoWithAudio(width, tbr, url) ==
    [acodec |-> "aac", vcodec |-> "avc1", protocol |-> "https", url |-> url,
     width |-> width, tbr |-> tbr]

VideoOnly(width, tbr, url) ==
    [acodec |-> "none", vcodec |-> "avc1", protocol |-> "https", url |-> url,
     width |-> width, tbr |-> tbr]

\* what get_video_info can return for a segment [1, 4]: a long enough video
\* with all three kinds of stream, the same cut short at 3 s, one with no
\* audio-only stream, one with a video-only stream alone
Catalog ==
    { [duration |-> 9, formats |-> <<AudioOnly(128, "a128"), VideoWithAudio(640, 500, "av640"),
                                     VideoOnly(1280, 1500, "v1280")>>],
      [duration |-> 3, formats |-> <<AudioOnly(128, "a128"), VideoWithAudio(640, 500, "av640"),
                                     VideoOnly(1280, 1500, "v1280")>>],
      [duration |-> 9, formats |-> <<VideoWithAudio(640, 500, "av640")>>],
      [duration |-> 9, formats |-> <<VideoOnly(1280, 1500, "v1280")>>] }

\* get_video_info(url): a video of the catalog, or youtube_dl raises
Resolutions == {Returned(<<v>>) : v \in Catalog} \cup {Raised("DownloadError")}

\* --------------------------------------------------- download_yt_video
NoJob == [ytid |-> "", started |-> FALSE, resolved |-> None, success |-> "", ret |-> ""]

video_path(c, j) ==
    Path("video", get_media_filename(j.ytid, j.ts_start, j.ts_end), "", c.video_format)

audio_path(c, j) ==
    Path("audio", get_media_filename(j.ytid, j.ts_start, j.ts_end), "", c.audio_format)

\* os.path.splitext(video_filepath)[0] + '_merge.' + video_format
merge_path(c, j) ==
    Path("video", get_media_filename(j.ytid, j.ts_start, j.ts_end), "_merge", c.video_format)

\* the locals download_yt_video has when it reaches the audio call, or the
\* exception raised on the way
download_locals(c, j, res) ==
    IF res.exc # "" THEN Raised(res.exc)
    ELSE
    LET video == res.val[1]
        past == j.ts_end > video.duration
        duration == IF past THEN video.duration - j.ts_start ELSE j.ts_end - j.ts_start
        ts_end == IF past THEN j.ts_start + duration ELSE j.ts_end
        best_video == get_best_video_format(video.formats, c.video_mode)
        best_audio == get_best_audio_format(video.formats)
    IN  IF best_video.exc # "" THEN Raised(best_video.exc)
        ELSE IF best_audio = None /\ best_video.val = None THEN Raised("TypeError")
        ELSE Returned(
            [duration |-> duration, ts_end |-> ts_end, end_past_video_end |-> past,
             video_filepath |-> video_path(c, j), audio_filepath |-> audio_path(c, j),
             best_video |-> best_video.val, best_audio |-> best_audio,
             best_video_url |-> IF best_video.val # None THEN <<best_video.val[1].url>> ELSE None,
             best_audio_url |-> IF best_audio # None THEN best_audio[1].url
                                ELSE best_video.val[1].url])

audio_call(c, j, l, iterable) ==
    ffmpeg("audio", "str", <<l.best_audio_url>>, l.audio_filepath,
           <<"-n", "-ss", str(j.ts_start)>>,
           <<"-t", str(l.duration), "-ar", "48000", "-vn", "-ac", "2",
             "-sample_fmt", "s16", "-f", c.audio_format, "-acodec", "flac">>,
           c.num_retries, TRUE, l.duration, iterable)

video_call(c, j, l, iterable) ==
    ffmpeg("video", "str", l.best_video_url, l.video_filepath,
           <<"-n", "-ss", str(j.ts_start)>>,
           <<"-t", str(l.duration), "-f", c.video_format, "-r", "30",
             "-vcodec", c.video_codec>>
             \o (IF c.video_mode \in {"bestvideo", "bestvideoaudionoaudio"}
                 THEN <<"-an">> ELSE <<>>),
           c.num_retries, TRUE, l.duration, iterable)

lossless_call(c, j, l, iterable) ==
    ffmpeg("lossless", "str", l.best_video_url, l.video_filepath,
           <<"-n", "-ss", str(j.ts_start)>>,
           <<"-t", str(l.duration), "-f", c.video_format, "-crf", "0",
             "-preset", "medium", "-r", "30", "-an", "-vcodec", c.video_codec>>,
           c.num_retries, FALSE, l.duration, iterable)

merge_call(c, j, l, iterable) ==
    ffmpeg("merge", "list", <<l.video_filepath, l.audio_filepath>>, merge_path(c, j),
           <<"-n">>,
           <<"-f", c.video_format, "-r", "30", "-vcodec", c.video_codec,
             "-acodec", "aac", "-ar", "48000", "-ac", "2", "-strict", "experimental">>,
           c.num_retries, TRUE, l.duration, iterable)

\* segment_mp_worker without its except clauses' return False
worker_returns_ignores_exception(j, e) ==
    [j EXCEPT !.success = "True", !.ret = j.ytid, !.exc = e]

\* segment_mp_worker returns (False when download_yt_video raised e) and
\* process_job returns the id or None
worker_returns(j, e) ==
    [j EXCEPT !.success = IF e = "" THEN "True" ELSE "False",
              !.ret = IF e = "" THEN j.ytid ELSE "None",
              !.exc = e]

\* the record of a finished ffmpeg() call
call_record(f, h) ==
    [stage |-> f.stage, term |-> f.term, exc |-> f.exc, commands |-> Len(h),
     output_path |-> f.output_path, sources |-> f.sources]

\* segment_mp_worker calls download_yt_video: from its first line to the
\* audio call of ffmpeg()
download_yt_video(w) ==
    /\ pc[w] = "download"
    /\ \E res \in env.resolutions :
          LET l == download_locals(cfg, job[w], res)
          IN  IF l.exc # ""
              THEN /\ job' = [job EXCEPT ![w] =
                               worker_returns([@ EXCEPT !.resolved = res.val], l.exc)]
                   /\ pc' = [pc EXCEPT ![w] = "done"]
                   /\ UNCHANGED <<loc, ff>>
              ELSE /\ loc' = [loc EXCEPT ![w] = l.val]
                   /\ ff' = [ff EXCEPT ![w] = audio_call(cfg, job[w], l.val, env.Iterable)]
                   /\ pc' = [pc EXCEPT ![w] = "ffmpeg"]
                   /\ job' = [job EXCEPT ![w].resolved = res.val]
    /\ hist' = [hist EXCEPT ![w] = <<>>]
    /\ UNCHANGED <<cfg, env, fs, csv, ledger, sched, calls, sel>>

\* after_call without the merge step: the function is over after the
\* lossless video call
after_call_without_merge(c, j, l, f, files) ==
    LET Step(n, e, fl) == [next |-> n, exc |-> e, fs |-> fl]
    IN  IF f.status = "raised" THEN Step("", f.exc, files)
        ELSE IF f.stage = "audio"
        THEN IF c.video_mode = "" THEN Step("", "", files)
             ELSE IF c.video_mode # "bestvideowithaudio" THEN Step("video", "", files)
             ELSE IF c.video_codec # "h264" THEN Step("", "NotImplementedError", files)
             ELSE Step("lossless", "", files)
        ELSE Step("", "", files)

\* what follows a finished ffmpeg() call in download_yt_video:
\*   next   the stage of the next ffmpeg() call, "" when the function is over
\*   exc    the exception that ends it, "" when it returns
\*   fs     the files after the merge step's replacement
after_call(c, j, l, f, files) ==
    LET Step(n, e, fl) == [next |-> n, exc |-> e, fs |-> fl]
    IN  IF f.status = "raised" THEN Step("", f.exc, files)
        ELSE IF f.stage = "audio"
        THEN IF c.video_mode = "" THEN Step("", "", files)
             ELSE IF c.video_mode # "bestvideowithaudio" THEN Step("video", "", files)
             ELSE IF c.video_codec # "h264" THEN Step("", "NotImplementedError", files)
             ELSE Step("lossless", "", files)
        ELSE IF f.stage = "video" THEN Step("", "", files)
        ELSE IF f.stage = "lossless" THEN Step("merge", "", files)
        ELSE \* the merge call returned
             IF ~exists(files, merge_path(c, j)) THEN Step("", "", files)
             ELSE IF ~exists(files, l.video_filepath)
             THEN Step("", "FileNotFoundError", files)
             ELSE Step("", "", write(remove(remove(files, l.video_filepath), merge_path(c, j)),
                                     l.video_filepath, files[merge_path(c, j)]))

next_call(c, j, l, stage, iterable) ==
    CASE stage = "video" -> video_call(c, j, l, iterable)
      [] stage = "lossless" -> lossless_call(c, j, l, iterable)
      [] OTHER -> merge_call(c, j, l, iterable)

\* download_yt_video goes on after ffmpeg() returned or raised
download_yt_video_next(w) ==
    /\ pc[w] = "ffmpeg"
    /\ ff[w].status \in {"returned", "raised"}
    /\ ff[w].stage # "direct"
    /\ LET s == after_call(cfg, job[w], loc[w], ff[w], fs)
       IN  /\ fs' = s.fs
           /\ calls' = [calls EXCEPT ![w] = Append(@, call_record(ff[w], hist[w]))]
           /\ hist' = [hist EXCEPT ![w] = <<>>]
           /\ IF s.next = ""
              THEN /\ job' = [job EXCEPT ![w] = worker_returns(@, s.exc)]
                   /\ pc' = [pc EXCEPT ![w] = "done"]
                   /\ ff' = [ff EXCEPT ![w] = NoCall]
              ELSE /\ ff' = [ff EXCEPT ![w] = next_call(cfg, job[w], loc[w], s.next, env.Iterable)]
                   /\ UNCHANGED <<job, pc>>
    /\ UNCHANGED <<cfg, env, csv, ledger, sched, loc, sel>>

\* ------------------------------------------------------------ process_job
check_output_exists(files, ytid, ts_start, ts_end, audio_only) ==
    LET media_filename == get_media_filename(ytid, ts_start, ts_end)
        video_filepath == Path("video", media_filename, "", "mp4")
        audio_filepath == Path("audio", media_filename, "", "flac")
        audio_exists == exists(files, audio_filepath)
    IN  IF audio_only THEN audio_exists
        ELSE audio_exists /\ exists(files, video_filepath)

\* not bool(ffmpeg_cfg.get('video_mode'))
audio_only(c) == c.video_mode = ""

\* whether process_job goes on to segment_mp_worker
process_job_runs(c, j, files) ==
    /\ ~check_output_exists(files, j.ytid, j.ts_start, j.ts_end, audio_only(c))
    /\ j.ytid \notin j.failed_ids

\* process_job up to its call of segment_mp_worker, or its early return
process_job(w) ==
    /\ pc[w] = "process_job"
    /\ IF process_job_runs(cfg, job[w], fs)
       THEN /\ job' = [job EXCEPT ![w].started = TRUE]
            /\ pc' = [pc EXCEPT ![w] = "download"]
       ELSE /\ job' = [job EXCEPT ![w].ret = "None"]
            /\ pc' = [pc EXCEPT ![w] = "done"]
    /\ UNCHANGED <<cfg, env, fs, csv, ledger, sched, loc, ff, hist, calls, sel>>


\* ------------------------------------------- a direct call of ffmpeg()
DirectOut == Path("audio", get_media_filename("a", 1, 4), "", "flac")
DirectSrc == Path("video", get_media_filename("a", 1, 4), "", "mp4")

\* the argument lists a caller passes: '-t' in output_args, in input_args,
\* in both, in neither
ArgLists ==
    { [in |-> <<"-n", "-ss", "1">>, out |-> <<"-t", "3", "-vn">>],
      [in |-> <<"-n", "-t", "3">>, out |-> <<"-f", "flac">>],
      [in |-> <<"-n", "-t", "3">>, out |-> <<"-t", "2">>],
      [in |-> <<"-n">>, out |-> <<"-f", "flac">>] }

\* input_path: a str, a list of local files, or neither
InputPaths ==
    { [type |-> "str", sources |-> <<"url">>],
      [type |-> "list", sources |-> <<DirectSrc>>],
      [type |-> "int", sources |-> <<>>] }

IdleCfg ==
    [video_mode |-> "", audio_format |-> "flac", video_format |-> "mp4",
     video_codec |-> "h264", num_retries |-> 0, num_workers |-> 1]

IdleSched ==
    [pc |-> "idle", run |-> 0, jobs |-> <<>>, remaining |-> <<>>, failed_ids |-> {},
     next |-> 1, results |-> <<>>, exc |-> "", csv_error |-> FALSE, complete |-> {}, due |-> <<>>]

\* collections.Iterable is there (Python < 3.10) or not; the module binds no
\* global named pandas (its only import of it is local to load_failures), so
\* the name resolves only when the embedding program has bound it; the
\* resolver answers with any of 'resolutions'
Envs == [Iterable : BOOLEAN, pandas : BOOLEAN, resolutions : {Resolutions}]

InitFfmpeg ==
    /\ cfg = IdleCfg
    /\ env \in Envs
    /\ fs \in { [p \in S |-> [by |-> "prior", q |-> "unchecked"]] :
                  S \in SUBSET {DirectOut, DirectSrc} }
    /\ csv = <<>>
    /\ ledger = NoLedger
    /\ sched = IdleSched
    /\ pc = [w \in Workers |-> IF w = 1 THEN "direct" ELSE "idle"]
    /\ job = [w \in Workers |-> <<>>]
    /\ loc = [w \in Workers |-> <<>>]
    /\ ff = [w \in Workers |-> NoCall]
    /\ hist = [w \in Workers |-> <<>>]
    /\ calls = [w \in Workers |-> <<>>]
    /\ sel = NoSel

\* ffmpeg(ffmpeg_path, input_path, output_path, input_args, output_args,
\*        num_retries, validation_callback, validation_args)
ffmpeg_call(w) ==
    /\ pc[w] = "direct"
    /\ \E a \in ArgLists, ip \in InputPaths, n \in 0..MaxRetries, v \in BOOLEAN :
          ff' = [ff EXCEPT ![w] =
                    ffmpeg("direct", ip.type, ip.sources, DirectOut, a.in, a.out,
                           n, v, 3, env.Iterable)]
    /\ pc' = [pc EXCEPT ![w] = "ffmpeg"]
    /\ UNCHANGED <<cfg, env, fs, csv, ledger, sched, job, loc, hist, calls, sel>>

NextFfmpeg ==
    \E w \in Workers : ffmpeg_call(w) \/ run_command_start(w) \/ attempt_end(w)

SpecFfmpeg == InitFfmpeg /\ [][NextFfmpeg]_vars

\* ------------------------------------------ one job, called on its own
\* process_job(ytid, ts_start, ts_end, ..., ffmpeg_cfg, failed_ids)
Job(ytid, ts_start, ts_end, failed_ids) ==
    [ytid |-> ytid, ts_start |-> ts_start, ts_end |-> ts_end, failed_ids |-> failed_ids,
     idx |-> 0, started |-> FALSE, resolved |-> None, success |-> "", ret |-> "",
     exc |-> ""]

JobCfgs ==
    [video_mode : VideoModes, audio_format : {"flac"}, video_format : {"mp4"},
     video_codec : {"h264", "vp9"}, num_retries : 0..MaxRetries, num_workers : {1}]

\* files an earlier run left in the output directory
Prior(paths) == [p \in paths |-> [by |-> "prior", q |-> "valid"]]

\* the segments process_job is called with: one inside every video of the
\* catalog or cut by its end, one that starts after the end of the short one
JobSegments == {<<"a", 1, 4>>, <<"a", 5, 8>>}

InitJob ==
    /\ cfg \in JobCfgs
    /\ env \in {e \in Envs : ~e.pandas}
    /\ \E seg \in JobSegments, ids \in SUBSET {"a"} :
          /\ job = [w \in Workers |->
                       IF w = 1 THEN Job(seg[1], seg[2], seg[3], ids) ELSE NoJob]
          /\ fs \in {Prior(S) :
                       S \in SUBSET {audio_path(cfg, Job(seg[1], seg[2], seg[3], {})),
                                     video_path(cfg, Job(seg[1], seg[2], seg[3], {}))}}
    /\ csv = <<>>
    /\ ledger = NoLedger
    /\ sched = IdleSched
    /\ pc = [w \in Workers |-> IF w = 1 THEN "process_job" ELSE "idle"]
    /\ loc = [w \in Workers |-> <<>>]
    /\ ff = [w \in Workers |-> NoCall]
    /\ hist = [w \in Workers |-> <<>>]
    /\ calls = [w \in Workers |-> <<>>]
    /\ sel = NoSel

NextJob ==
    \E w \in Workers :
        \/ process_job(w)
        \/ download_yt_video(w)
        \/ run_command_start(w)
        \/ attempt_end(w)
        \/ download_yt_video_next(w)

SpecJob == InitJob /\ [][NextJob]_vars


\* --------------------------- the stream selection, called on its own
MaxStreams == 3
MaxCalls == 2

\* the same stream behind a DASH manifest
Dash(format) == [format EXCEPT !.protocol = "http_dash_segments"]

\* the same stream without the optional field k
Without(format, k) == [x \in (DOMAIN format) \ {k} |-> format[x]]

\* the entries of video['formats']: of each kind streams that differ in rank
\* and streams that tie, one behind DASH that outranks them, one that lacks a
\* sort field
Streams ==
    { AudioOnly(128, "a128"), AudioOnly(128, "b128"), Dash(AudioOnly(160, "a160")),
      Without(AudioOnly(0, "a"), "abr"),
      VideoOnly(1280, 1500, "v1280"), VideoOnly(1280, 1500, "w1280"),
      VideoOnly(640, 2000, "v640"),
      Dash(VideoOnly(1920, 3000, "v1920")), Without(VideoOnly(1280, 0, "v"), "tbr"),
      VideoWithAudio(640, 500, "av500"), VideoWithAudio(640, 700, "av700"),
      VideoWithAudio(640, 700, "bv700"),
      Dash(VideoWithAudio(1920, 3000, "av1920")),
      Without(VideoWithAudio(1280, 0, "av"), "tbr") }

StreamLists == UNION {[1..n -> Streams] : n \in 0..MaxStreams}

InitSelect ==
    /\ cfg = IdleCfg
    /\ env \in {e \in Envs : e.Iterable /\ ~e.pandas}
    /\ fs = <<>>
    /\ csv = <<>>
    /\ ledger = NoLedger
    /\ sched = IdleSched
    /\ pc = [w \in Workers |-> "idle"]
    /\ job = [w \in Workers |-> NoJob]
    /\ loc = [w \in Workers |-> <<>>]
    /\ ff = [w \in Workers |-> NoCall]
    /\ hist = [w \in Workers |-> <<>>]
    /\ calls = [w \in Workers |-> <<>>]
    /\ \E formats \in StreamLists, video_mode \in VideoModes :
          sel = [formats |-> formats, video_mode |-> video_mode,
                 audio |-> <<>>, video |-> <<>>]

\* get_best_audio_format(formats) is called and returns
get_best_audio_format_call ==
    /\ Len(sel.audio) < MaxCalls
    /\ sel' = [sel EXCEPT !.audio = Append(@, get_best_audio_format(sel.formats))]
    /\ UNCHANGED <<cfg, env, fs, csv, ledger, sched, pc, job, loc, ff, hist, calls>>

\* get_best_video_format(formats, video_mode) is called and returns or raises
get_best_video_format_call ==
    /\ Len(sel.video) < MaxCalls
    /\ sel' = [sel EXCEPT
                  !.video = Append(@, get_best_video_format(sel.formats, sel.video_mode))]
    /\ UNCHANGED <<cfg, env, fs, csv, ledger, sched, pc, job, loc, ff, hist, calls>>

NextSelect == get_best_audio_format_call \/ get_best_video_format_call

SpecSelect == InitSelect /\ [][NextSelect]_vars


\* ------------------------------------------------- download_subset_videos
MaxRuns == 2

\* load_failures(): the ids of failures.csv, set() when there is no file
load_failures(file) == IF ~file.present THEN {} ELSE file.ids

\* A row as csv.reader yields it: its cells, or err when reading it raises
\* csv.Error.
Row(cells) == [err |-> FALSE, cells |-> cells]
BadCsv == [err |-> TRUE, cells |-> <<>>]

\* row[0][0] == '#'
is_comment(cell) == cell \in {"#", "# segments"}

\* what one pass of the loop body makes of a row up to line 837: a comment,
\* a segment, or the exception raised
parse_row(row) ==
    LET c == row.cells
        Exc(e) == [exc |-> e, comment |-> FALSE, seg |-> <<>>]
    IN  IF row.err THEN Exc("csv.Error")
        ELSE IF Len(c) < 1 THEN Exc("IndexError")
        ELSE IF c[1] = "" THEN Exc("IndexError")
        ELSE IF is_comment(c[1]) THEN [exc |-> "", comment |-> TRUE, seg |-> <<>>]
        ELSE IF Len(c) < 2 THEN Exc("IndexError")
        ELSE IF ~is_float(c[2]) THEN Exc("ValueError")
        ELSE IF Len(c) < 3 THEN Exc("IndexError")
        ELSE IF ~is_float(c[3]) THEN Exc("ValueError")
        ELSE [exc |-> "", comment |-> FALSE, seg |-> <<c[1], float(c[2]), float(c[3])>>]

\* the loop body without its test of failed_ids
setup_jobs_skips_output_only(files, c, failed_ids, seg) ==
    check_output_exists(files, seg[1], seg[2], seg[3], audio_only(c))

\* the two tests of the loop body that skip a segment
setup_jobs_skips(files, c, failed_ids, seg) ==
    \/ check_output_exists(files, seg[1], seg[2], seg[3], audio_only(c))
    \/ seg[1] \in failed_ids

\* the loop of setup_jobs from row i on: csv.Error ends the loop and is
\* logged, any other exception leaves setup_jobs
RECURSIVE setup_loop(_, _, _, _, _, _)
setup_loop(data, i, jobs, files, c, failed_ids) ==
    IF i > Len(data) THEN [exc |-> "", csv_error |-> FALSE, jobs |-> jobs]
    ELSE LET r == parse_row(data[i])
         IN  IF r.exc = "csv.Error" THEN [exc |-> "", csv_error |-> TRUE, jobs |-> jobs]
             ELSE IF r.exc # "" THEN [exc |-> r.exc, csv_error |-> FALSE, jobs |-> jobs]
             ELSE IF r.comment THEN setup_loop(data, i + 1, jobs, files, c, failed_ids)
             ELSE IF setup_jobs_skips(files, c, failed_ids, r.seg)
             THEN setup_loop(data, i + 1, jobs, files, c, failed_ids)
             ELSE setup_loop(data, i + 1, Append(jobs, r.seg), files, c, failed_ids)

\* setup_jobs(data): the loop, then pandas.DataFrame.from_records(remaining),
\* which raises NameError when the name pandas is unbound
setup_jobs(data, files, c, failed_ids, pandas) ==
    LET l == setup_loop(data, 1, <<>>, files, c, failed_ids)
    IN  IF l.exc = "" /\ ~pandas THEN [l EXCEPT !.exc = "NameError"] ELSE l

\* the segments whose artifacts, under the names download_yt_video gives
\* them, were written by this program's transcoder commands and are valid
complete_segments(files, c, segs) ==
    {seg \in segs :
        LET j == Job(seg[1], seg[2], seg[3], {})
            made(p) == exists(files, p) /\ files[p].by # "prior" /\ files[p].q = "valid"
        IN  /\ made(audio_path(c, j))
            /\ audio_only(c) \/ made(video_path(c, j))}

\* the rows of a segment file that are comments or name a segment
well_formed(data) == SelectSeq(data, LAMBDA r : parse_row(r).exc = "")

\* the segments the well-formed rows of a segment file name
segments(data) ==
    {parse_row(data[i]).seg :
        i \in {k \in 1..Len(data) : parse_row(data[k]).exc = "" /\ ~parse_row(data[k]).comment}}

\* download_subset_videos is called: load_failures, setup_jobs, and the
\* jobs handed to joblib.Parallel unless setup_jobs raised
download_subset_videos ==
    /\ sched.pc \in {"idle", "finished", "raised"}
    /\ sched.run < MaxRuns
    /\ LET failed_ids == load_failures(ledger)
           s == setup_jobs(csv, fs, cfg, failed_ids, env.pandas)
       IN  sched' = [pc |-> IF s.exc = "" THEN "parallel" ELSE "raised",
                     run |-> sched.run + 1,
                     jobs |-> s.jobs, remaining |-> s.jobs,
                     failed_ids |-> failed_ids, next |-> 1,
                     results |-> [i \in 1..Len(s.jobs) |-> "pending"],
                     exc |-> s.exc, csv_error |-> s.csv_error,
                     complete |-> complete_segments(fs, cfg, segments(csv)),
                     due |-> setup_loop(well_formed(csv), 1, <<>>, fs, cfg, failed_ids).jobs]
    /\ pc' = [w \in Workers |-> "idle"]
    /\ job' = [w \in Workers |-> NoJob]
    /\ calls' = [w \in Workers |-> <<>>]
    /\ UNCHANGED <<cfg, env, fs, csv, ledger, loc, ff, hist, sel>>

\* what process_job returned to the pool for the job worker w ran
collected(results, w) ==
    IF pc[w] = "done" THEN [results EXCEPT ![job[w].idx] = job[w].ret] ELSE results

\* joblib.Parallel(n_jobs=num_workers)(jobs): a free worker takes the next job
dispatch(w) ==
    /\ sched.pc = "parallel"
    /\ w <= cfg.num_workers
    /\ pc[w] \in {"idle", "done"}
    /\ sched.next <= Len(sched.jobs)
    /\ LET seg == sched.jobs[sched.next]
       IN  job' = [job EXCEPT ![w] =
                      [Job(seg[1], seg[2], seg[3], sched.failed_ids) EXCEPT
                          !.idx = sched.next]]
    /\ sched' = [sched EXCEPT !.next = @ + 1, !.results = collected(@, w)]
    /\ pc' = [pc EXCEPT ![w] = "process_job"]
    /\ calls' = [calls EXCEPT ![w] = <<>>]
    /\ UNCHANGED <<cfg, env, fs, csv, ledger, loc, ff, hist, sel>>

RECURSIVE collect_all(_, _)
collect_all(results, w) ==
    IF w = 0 THEN results ELSE collect_all(collected(results, w), w - 1)

\* every job was taken and has returned: Parallel returns the results
parallel_returns ==
    /\ sched.pc = "parallel"
    /\ sched.next > Len(sched.jobs)
    /\ \A w \in Workers : pc[w] \in {"idle", "done"}
    /\ sched' = [sched EXCEPT !.pc = "finished", !.results = collect_all(@, MaxWorkers)]
    /\ pc' = [w \in Workers |-> "idle"]
    /\ UNCHANGED <<cfg, env, fs, csv, ledger, job, loc, ff, hist, calls, sel>>

\* the rows a segment file is made of
Rows ==
    { Row(<<"a", "1", "4">>), Row(<<"b", "1", "4">>), Row(<<"# segments">>),
      Row(<<"a", "x", "4">>), Row(<<"b", "1">>), Row(<<>>), BadCsv }

SegmentFiles == UNION {[1..n -> Rows] : n \in 0..MaxRows}

\* download.py's configuration, with the audio container left open
Cfgs ==
    [video_mode : {""}, audio_format : {"flac", "wav"}, video_format : {"mp4"},
     video_codec : {"h264"}, num_retries : {1}, num_workers : 1..MaxWorkers]

FullVideo ==
    [duration |-> 9, formats |-> <<AudioOnly(128, "a128"), VideoWithAudio(640, 500, "av640"),
                                   VideoOnly(1280, 1500, "v1280")>>]

Init ==
    /\ cfg \in Cfgs
    /\ env \in [Iterable : {TRUE}, pandas : BOOLEAN,
                resolutions : {{Returned(<<FullVideo>>), Raised("DownloadError")}}]
    /\ fs \in {Prior(S) : S \in SUBSET {audio_path(cfg, Job("a", 1, 4, {}))}}
    /\ csv \in SegmentFiles
    /\ ledger \in {NoLedger, [present |-> TRUE, ids |-> {"a"}]}
    /\ sched = IdleSched
    /\ pc = [w \in Workers |-> "idle"]
    /\ job = [w \in Workers |-> NoJob]
    /\ loc = [w \in Workers |-> <<>>]
    /\ ff = [w \in Workers |-> NoCall]
    /\ hist = [w \in Workers |-> <<>>]
    /\ calls = [w \in Workers |-> <<>>]
    /\ sel = NoSel

Next ==
    \/ download_subset_videos
    \/ parallel_returns
    \/ \E w \in Workers :
        \/ dispatch(w)
        \/ process_job(w)
        \/ download_yt_video(w)
        \/ run_command_start(w)
        \/ attempt_end(w)
        \/ download_yt_video_next(w)

Spec == Init /\ [][Next]_vars

\* ----------------------------------- the batch under a fair worker pool
\* download.py's configuration with every retry budget, zero included; the
\* largest budget runs on a pool of one worker
FairCfgs ==
    {c \in [video_mode : {""}, audio_format : {"flac"}, video_format : {"mp4"},
            video_codec : {"h264"}, num_retries : 0..MaxRetries,
            num_workers : 1..MaxWorkers] :
        c.num_retries < MaxRetries \/ c.num_workers = 1}

\* segment files of well-formed rows
FairSegmentFiles ==
    UNION {[1..n -> {Row(<<"a", "1", "4">>), Row(<<"b", "1", "4">>)}] : n \in 0..MaxRows}

InitFair ==
    /\ cfg \in FairCfgs
    /\ env \in [Iterable : {TRUE}, pandas : BOOLEAN,
                resolutions : {{Returned(<<FullVideo>>), Raised("DownloadError")}}]
    /\ fs = <<>>
    /\ csv \in FairSegmentFiles
    /\ ledger = NoLedger
    /\ sched = IdleSched
    /\ pc = [w \in Workers |-> "idle"]
    /\ job = [w \in Workers |-> NoJob]
    /\ loc = [w \in Workers |-> <<>>]
    /\ ff = [w \in Workers |-> NoCall]
    /\ hist = [w \in Workers |-> <<>>]
    /\ calls = [w \in Workers |-> <<>>]
    /\ sel = NoSel

\* a worker process of the pool takes its next step
worker_step(w) ==
    \/ dispatch(w)
    \/ process_job(w)
    \/ download_yt_video(w)
    \/ run_command_start(w)
    \/ attempt_end(w)
    \/ download_yt_video_next(w)

\* joblib.Parallel keeps every worker process running and returns once the
\* last job has; subprocess.run returns or is cut off by its timeout.  When
\* download_subset_videos is called is up to the caller.
Fairness ==
    /\ WF_vars(parallel_returns)
    /\ \A w \in Workers : WF_vars(worker_step(w))

FairSpec == InitFair /\ [][Next]_vars /\ Fairness


\* whether the ffmpeg() call of worker w is over
ended(w) == pc[w] = "ffmpeg" /\ ff[w].status \in {"returned", "raised"}


\* the duration the argument lists of f hold now
duration_arg(f) ==
    LET i == index(f.input_args, "-t")
        j == index(f.output_args, "-t")
    IN  IF i # 0 /\ i + 1 <= Len(f.input_args) THEN f.input_args[i + 1]
        ELSE IF j # 0 /\ j + 1 <= Len(f.output_args) THEN f.output_args[j + 1]
        ELSE "none"

\* every attempt of worker w's call so far ended in FfmpegValidationError
all_invalid(w) ==
    /\ pc[w] = "ffmpeg"
    /\ Len(hist[w]) >= 1
    /\ \A i \in 1..Len(hist[w]) : hist[w][i].kind = "invalid"

\* C2: when the validator raises FfmpegValidationError on every attempt of a
\* call with num_retries = N >= 1, the command runs exactly N times (the call
\* is over exactly when N attempts were made), the output file is removed
\* after each of the first N-1 attempts and left after the N-th, and the call
\* returns through the exhaustion branch without raising.
C2_ValidationFailureUsesWholeBudget ==
    \A w \in Workers :
        all_invalid(w) =>
            /\ Len(hist[w]) <= ff[w].num_retries
            /\ ff[w].status # "raised"
            /\ ended(w) <=> Len(hist[w]) = ff[w].num_retries
            /\ ended(w) => ff[w].exhausted
            /\ \A i \in 1..Len(hist[w]) :
                  /\ hist[w][i].removed <=> i < ff[w].num_retries
                  /\ hist[w][i].left <=> i = ff[w].num_retries

C2_Witness ==
    \E w \in Workers :
        /\ all_invalid(w)
        /\ ended(w)
        /\ ff[w].num_retries = MaxRetries
        /\ Len(hist[w]) = MaxRetries

\* C3: after an attempt ends in FfmpegIncorrectDurationError(target, actual)
\* and a '-t' is in input_args or output_args, the value after that '-t' is
\* the previous one plus target - actual, the next command line carries it,
\* the attempt counts against num_retries, and when the next attempt
\* validates the call returns with no further attempt.
C3_DurationCorrection ==
    \A w \in Workers : \A i \in 1..Len(hist[w]) :
        (hist[w][i].kind = "duration" /\ hist[w][i].t # "none") =>
            LET h == hist[w]
                new == str(float(h[i].t) + h[i].diff)
            IN  /\ ff[w].status # "raised"
                /\ Len(h) <= ff[w].num_retries
                /\ ff[w].attempt >= i
                /\ IF i < Len(h) THEN h[i + 1].t = new
                   ELSE /\ duration_arg(ff[w]) = new
                        /\ ff[w].status = "running" => cmd_duration(ff[w]) = new
                /\ (i < Len(h) /\ h[i + 1].kind = "pass") =>
                       /\ Len(h) = i + 1
                       /\ ff[w].status = "returned"
                       /\ ff[w].term = "success"

C3_Witness ==
    \E w \in Workers :
        /\ Len(hist[w]) = 2
        /\ hist[w][1].kind = "duration"
        /\ hist[w][1].diff = MaxDrift
        /\ hist[w][1].t = "3"
        /\ hist[w][2].kind = "pass"
        /\ hist[w][2].t = str(3 + MaxDrift)
        /\ ff[w].status = "returned"


\* the ffmpeg() calls worker w's job has made: the finished ones and the
\* one under way
calls_made(w) ==
    IF pc[w] = "ffmpeg" /\ ff[w].status # "none"
    THEN Append(calls[w], call_record(ff[w], hist[w]))
    ELSE calls[w]

\* C1: a job is reported successful (segment_mp_worker returns True and
\* process_job returns the id) only if none of its ffmpeg() calls used up
\* its num_retries attempts without success.
C1_SuccessOnlyIfEveryCallSucceeded ==
    \A w \in Workers :
        (job[w].success = "True" /\ cfg.num_retries >= 1) =>
            /\ job[w].ret = job[w].ytid
            /\ \A i \in 1..Len(calls[w]) : calls[w][i].term # "exhausted"

\* the segment worker w's job is about
segment_of(j) == <<j.ytid, j.ts_start, j.ts_end>>

C7_MalformedRowIsSkipped ==
    (sched.run >= 1 /\ env.pandas) =>
        /\ sched.pc # "raised"
        /\ sched.jobs = sched.due

\* C11: when the segment's end is past the resolved total duration,
\* download_yt_video sets end to the total duration, duration to the total
\* duration minus start and the end-past-video-end flag, and hands that
\* duration to '-t' and to the validator; the duration used is never
\* negative for a segment with end >= start.
C11_ClampedDurationIsUsedAndNonNegative ==
    \A w \in Workers :
        (/\ pc[w] = "ffmpeg"
         /\ job[w].resolved # None
         /\ job[w].ts_end >= job[w].ts_start
         /\ ff[w].stage \in {"audio", "video", "lossless"}) =>
            LET total == job[w].resolved[1].duration
                l == loc[w]
            IN  /\ job[w].ts_end > total =>
                      /\ l.ts_end = total
                      /\ l.duration = total - job[w].ts_start
                      /\ l.end_past_video_end
                /\ Len(hist[w]) = 0 => duration_arg(ff[w]) = str(l.duration)
                /\ ff[w].validate => ff[w].expected = l.duration
                /\ l.duration >= 0


\* whether a result of get_best_audio_format or get_best_video_format is a
\* stream behind DASH
is_dash(result) == result # None /\ ~format_is_not_dash(result[1])

abr_of(format) == IF "abr" \in DOMAIN format THEN format.abr ELSE 0

\* the streams of a list that are not behind DASH and have audio and no video
eligible_audio(formats) ==
    {formats[i] : i \in {k \in 1..Len(formats) :
        /\ formats[k].protocol # "http_dash_segments"
        /\ formats[k].acodec # "none"
        /\ formats[k].vcodec = "none"}}

\* C13: get_best_audio_format returns None exactly when the list has no
\* non-DASH stream with audio and no video, and otherwise one of those
\* streams whose 'abr' (0 when missing) no other of them exceeds.
C13_BestAudioHasMaximalAbr ==
    \A i \in 1..Len(sel.audio) :
        LET r == sel.audio[i]
            cand == eligible_audio(sel.formats)
        IN  /\ r = None <=> cand = {}
            /\ r # None =>
                  /\ r[1] \in cand
                  /\ \A c \in cand : abr_of(c) <= abr_of(r[1])

C13_Witness ==
    /\ sel.formats = <<Without(AudioOnly(0, "a"), "abr"), AudioOnly(128, "a128"),
                       Dash(AudioOnly(160, "a160"))>>
    /\ Len(sel.audio) >= 1
    /\ sel.audio[1] = <<AudioOnly(128, "a128")>>


\* the streams of a list that are not behind DASH and have video, with
\* audio or without
eligible_video(formats, with_audio) ==
    {formats[i] : i \in {k \in 1..Len(formats) :
        /\ formats[k].protocol # "http_dash_segments"
        /\ formats[k].vcodec # "none"
        /\ (formats[k].acodec # "none") = with_audio}}

\* every stream of S has both sort fields
keyed(S) == \A x \in S : {"width", "tbr"} \subseteq DOMAIN x

\* r returned a stream of S that none of S exceeds by (width, tbr)
returned_greatest(r, S) ==
    /\ r.exc = ""
    /\ r.val # None
    /\ r.val[1] \in S
    /\ \A y \in S :
          \/ y.width < r.val[1].width
          \/ y.width = r.val[1].width /\ y.tbr <= r.val[1].tbr

\* C14: in modes 'bestvideo' and 'bestvideowithaudio' get_best_video_format
\* returns the video-only stream greatest by (width, tbr) when there is one,
\* otherwise the greatest stream with video and audio; in modes
\* 'bestvideoaudio' and 'bestvideoaudionoaudio' it returns the greatest
\* stream with video and audio.  (Stated where the streams it is to choose
\* among exist and have both fields.)
C14_BestVideoIsGreatestOfItsKind ==
    \A i \in 1..Len(sel.video) :
        LET r == sel.video[i]
            video_only == eligible_video(sel.formats, FALSE)
            video_audio == eligible_video(sel.formats, TRUE)
        IN  /\ (/\ sel.video_mode \in {"bestvideo", "bestvideowithaudio"}
                 /\ video_only # {} /\ keyed(video_only)) =>
                    returned_greatest(r, video_only)
            /\ (/\ sel.video_mode \in {"bestvideo", "bestvideowithaudio"}
                 /\ video_only = {}
                 /\ video_audio # {} /\ keyed(video_audio)) =>
                    returned_greatest(r, video_audio)
            /\ (/\ sel.video_mode \in {"bestvideoaudio", "bestvideoaudionoaudio"}
                 /\ video_audio # {} /\ keyed(video_audio)) =>
                    returned_greatest(r, video_audio)


\* the video modes get_best_video_format has a branch for
RecognisedModes ==
    {"", "bestvideo", "bestvideowithaudio", "bestvideoaudio", "bestvideoaudionoaudio"}

\* C15: with a video mode outside the recognised set, the misconfiguration
\* is detected before any job starts (no job gets as far as
\* segment_mp_worker), no transcoder command of the segment runs, and
\* get_best_video_format raises ValueError on the resolved stream list.
C15_InvalidModeIsRejectedUpFront ==
    \A w \in Workers :
        cfg.video_mode \notin RecognisedModes =>
            /\ ~job[w].started
            /\ pc[w] # "ffmpeg"
            /\ job[w].resolved # None =>
                  get_best_video_format(job[w].resolved[1].formats, cfg.video_mode)
                      = Raised("ValueError")


\* C16: after an attempt that failed with an HTTP 4xx/5xx process error no
\* file is left at the output path for the next attempt, the next attempt
\* runs the same command line, and the failure counts as one attempt.
C16_HttpErrorDeletesPartialOutput ==
    \A w \in Workers : \A i \in 1..Len(hist[w]) :
        hist[w][i].kind = "http" =>
            /\ ~hist[w][i].left
            /\ i < Len(hist[w]) => hist[w][i + 1].cmd = hist[w][i].cmd
            /\ ff[w].attempt >= i
            /\ Len(hist[w]) <= ff[w].num_retries


\* C17: ffmpeg() meets 'already exists' only for a file that was at the
\* output path before the first attempt of the call: that outcome is the
\* first attempt's, never that of an attempt made after a failed one.
C17_AlreadyExistsOnlyForEarlierRuns ==
    \A w \in Workers : \A i \in 1..Len(hist[w]) :
        hist[w][i].kind = "exists" => i = 1


\* C18: when an attempt's process error says the output file already
\* exists, ffmpeg() stops at once: that attempt is its last command, the
\* file at the output path is neither removed nor changed, and the call
\* returns through break, not through the retries-exhausted branch.
C18_AlreadyExistsStopsAtOnce ==
    \A w \in Workers : \A i \in 1..Len(hist[w]) :
        hist[w][i].kind = "exists" =>
            /\ i = Len(hist[w])
            /\ ff[w].status = "returned"
            /\ ff[w].term = "exists"
            /\ ~ff[w].exhausted
            /\ ~hist[w][i].removed
            /\ hist[w][i].same
            /\ hist[w][i].left

C18_Witness ==
    \E w \in Workers :
        /\ Len(hist[w]) = 1
        /\ hist[w][1].kind = "exists"
        /\ ff[w].num_retries = MaxRetries
        /\ ff[w].status = "returned"
        /\ exists(fs, ff[w].output_path)
        /\ fs[ff[w].output_path].by = "prior"


\* every attempt of worker w's call so far ended in FfmpegUnopenableFileError
all_unopenable(w) ==
    /\ pc[w] = "ffmpeg"
    /\ Len(hist[w]) >= 1
    /\ \A i \in 1..Len(hist[w]) : hist[w][i].kind = "unopenable"

\* C19: after every attempt that ended in FfmpegUnopenableFileError, the
\* last allowed one included, the output file has been removed; when every
\* attempt of a call was unopenable the call uses all its attempts and ends
\* with no file at the output path.
C19_UnopenableOutputIsAlwaysRemoved ==
    \A w \in Workers :
        /\ \A i \in 1..Len(hist[w]) :
              hist[w][i].kind = "unopenable" => hist[w][i].removed /\ ~hist[w][i].left
        /\ (all_unopenable(w) /\ ended(w)) =>
              /\ Len(hist[w]) = ff[w].num_retries
              /\ ff[w].exhausted
              /\ ~exists(fs, ff[w].output_path)

C19_Witness ==
    \E w \in Workers :
        /\ all_unopenable(w)
        /\ ended(w)
        /\ Len(hist[w]) = MaxRetries
        /\ hist[w][MaxRetries].removed
        /\ ~exists(fs, ff[w].output_path)


\* C20: an attempt that ended in anything but a duration mismatch (process
\* error, timeout, HTTP error, unopenable output, validation failure) leaves
\* input_args and output_args as they were, so the command line of the next
\* attempt is the same; after a process error that is neither 'already
\* exists' nor HTTP, and after a timeout, no file is left at the output path
\* and the attempt counts against num_retries.
C20_OtherOutcomesKeepTheArguments ==
    \A w \in Workers : \A i \in 1..Len(hist[w]) :
        LET h == hist[w] IN
        /\ h[i].kind \in {"error", "timeout", "http", "unopenable", "invalid"} =>
              IF i < Len(h) THEN h[i + 1].cmd = h[i].cmd
              ELSE command_line(ff[w]) = h[i].cmd
        /\ h[i].kind \in {"error", "timeout"} =>
              /\ ~h[i].left
              /\ ff[w].attempt >= i
              /\ Len(h) <= ff[w].num_retries

C20_Witness ==
    \E w \in Workers :
        /\ Len(hist[w]) = 2
        /\ hist[w][1].kind = "timeout"
        /\ hist[w][1].removed
        /\ hist[w][2].kind = "error"
        /\ hist[w][2].cmd = hist[w][1].cmd
        /\ hist[w][1].t = "3"


\* C21: in modes 'bestvideoaudio' and 'bestvideoaudionoaudio', when the
\* resolved list has no non-DASH stream with video and audio,
\* get_best_video_format raises (it does not fall back to a video-only
\* stream), no transcoder command of the segment runs and the job is
\* reported failed.
C21_NoFallbackToVideoOnly ==
    \A w \in Workers :
        (/\ cfg.video_mode \in {"bestvideoaudio", "bestvideoaudionoaudio"}
         /\ job[w].resolved # None
         /\ eligible_video(job[w].resolved[1].formats, TRUE) = {}) =>
            /\ get_best_video_format(job[w].resolved[1].formats, cfg.video_mode).exc # ""
            /\ pc[w] = "done"
            /\ calls[w] = <<>>
            /\ job[w].success = "False"
            /\ job[w].ret = "None"

C21_Witness ==
    \E w \in Workers :
        /\ cfg.video_mode = "bestvideoaudio"
        /\ job[w].resolved # None
        /\ job[w].resolved[1].formats = <<VideoOnly(1280, 1500, "v1280")>>
        /\ pc[w] = "done"
        /\ job[w].exc = "IndexError"
        /\ job[w].success = "False"


\* C22: with video mode '' get_best_video_format returns None on every
\* stream list, also on one with a video stream that lacks 'width' or 'tbr'.
C22_NoVideoModeReturnsNone ==
    sel.video_mode = "" =>
        \A i \in 1..Len(sel.video) : sel.video[i] = Returned(None)


\* C23: when the resolver fails or another exception is raised inside
\* download_yt_video, segment_mp_worker returns False and process_job None,
\* no transcoder command of that job runs afterwards, and the batch still
\* finishes with a terminal result for every submitted job.
C23_ExceptionFailsOnlyItsSegment ==
    /\ \A w \in Workers :
          (job[w].started /\ job[w].exc # "") =>
              /\ job[w].success = "False"
              /\ job[w].ret = "None"
              /\ pc[w] \in {"done", "idle"}
              /\ ff[w].status \in {"none", "raised"}
    /\ sched.pc = "finished" =>
          \A i \in 1..Len(sched.jobs) : sched.results[i] \in {"None", sched.jobs[i][1]}

C23_Witness ==
    /\ sched.pc = "finished"
    /\ Len(sched.jobs) = 2
    /\ sched.results = <<"None", "b">>
    /\ \E w \in Workers :
          job[w].started /\ job[w].exc = "DownloadError" /\ job[w].idx = 1


\* the stages of the ffmpeg() calls a job made, in order
stages(w) == [i \in 1..Len(calls[w]) |-> calls[w][i].stage]

\* a job that went through download_yt_video without an exception
completed(w) == pc[w] = "done" /\ job[w].started /\ job[w].exc = ""

first_index(formats, x) == CHOOSE i \in 1..Len(formats) : formats[i] = x /\ \A j \in 1..(i - 1) : formats[j] # x

\* two video streams that sort_video_formats puts in the same sorted list
\* under the same key
same_video_key(a, b) ==
    /\ format_is_video_only(a) = format_is_video_only(b)
    /\ format_is_video_with_audio(a) = format_is_video_with_audio(b)
    /\ {"width", "tbr"} \subseteq (DOMAIN a \cap DOMAIN b)
    /\ a.width = b.width /\ a.tbr = b.tbr

\* C25: the stream get_best_audio_format or get_best_video_format returns
\* has no eligible stream of its kind with the same sort key in front of it
\* in the resolver's list.
C25_TiesGoToTheFirstInTheList ==
    /\ \A i \in 1..Len(sel.audio) :
          sel.audio[i] # None =>
              LET x == sel.audio[i][1]
              IN  \A j \in 1..(first_index(sel.formats, x) - 1) :
                      ~ /\ sel.formats[j] \in eligible_audio(sel.formats)
                        /\ abr_of(sel.formats[j]) = abr_of(x)
    /\ \A i \in 1..Len(sel.video) :
          (sel.video[i].exc = "" /\ sel.video[i].val # None) =>
              LET x == sel.video[i].val[1]
              IN  \A j \in 1..(first_index(sel.formats, x) - 1) :
                      ~ /\ format_is_not_dash(sel.formats[j])
                        /\ same_video_key(sel.formats[j], x)

C25_Witness ==
    /\ sel.video_mode = "bestvideoaudio"
    /\ sel.formats = <<VideoWithAudio(640, 500, "av500"), VideoWithAudio(640, 700, "bv700"),
                       VideoWithAudio(640, 700, "av700")>>
    /\ Len(sel.video) = 1
    /\ sel.video[1] = Returned(<<VideoWithAudio(640, 700, "bv700")>>)


\* the transcoder commands of every ffmpeg() call, finished or under way,
\* are at most its num_retries, and a call with num_retries 0 runs none
\* and ends in the exhaustion branch
commands_bounded ==
    \A w \in Workers :
        /\ (pc[w] = "ffmpeg" /\ ff[w].status # "none") =>
              /\ Len(hist[w]) <= ff[w].num_retries
              /\ ff[w].status = "running" => Len(hist[w]) < ff[w].num_retries
        /\ \A i \in 1..Len(calls[w]) :
              /\ calls[w][i].commands <= cfg.num_retries
              /\ cfg.num_retries = 0 => calls[w][i].term = "exhausted"

\* every job of the batch has a terminal result and Parallel has returned
batch_finished ==
    /\ sched.pc = "finished"
    /\ \A i \in 1..Len(sched.jobs) : sched.results[i] \in {"None", sched.jobs[i][1]}

\* C26: an ffmpeg() call never runs more than num_retries commands (none
\* when num_retries is 0, where it ends in the exhaustion branch); and under
\* a fair worker pool a batch handed to the pool finishes, every ffmpeg()
\* call of it over and every job with a terminal result.
C26_CallsAndBatchTerminate ==
    /\ []commands_bounded
    /\ (sched.pc = "parallel") ~> batch_finished

C26_Witness ==
    /\ batch_finished
    /\ Len(sched.jobs) = 2
    /\ cfg.num_retries = MaxRetries
    /\ sched.results = <<"a", "b">>
    /\ \E w \in Workers :
          /\ Len(calls[w]) = 1
          /\ calls[w][1].commands = MaxRetries
          /\ calls[w][1].term = "exhausted"


\* C27: when an ffmpeg() call with a validator has returned, a file at its
\* output path was there before the call or is the output of an attempt
\* that passed the validator.
C27_KeptOutputPassedValidation ==
    \A w \in Workers :
        (ended(w) /\ ff[w].status = "returned" /\ ff[w].validate
            /\ exists(fs, ff[w].output_path)) =>
                \/ fs[ff[w].output_path].by = "prior"
                \/ fs[ff[w].output_path].q = "valid"


\* the paths check_output_exists tests for a segment file row
gate_path(sub, j) ==
    Path(sub, get_media_filename(j.ytid, j.ts_start, j.ts_end), "",
         IF sub = "audio" THEN "flac" ELSE "mp4")

audio_only_streams(formats) == SelectSeq(filter_formats(formats), format_is_audio_only)

\* its streams with video and audio that pass filter_formats
video_with_audio_streams(formats) ==
    SelectSeq(filter_formats(formats), format_is_video_with_audio)

\* C8: when the resolved list has no audio-only stream (and has a stream
\* with video and audio), get_best_audio_format returns None and the audio
\* call of ffmpeg() reads the URL of a video stream of the list, in every
\* accepted video mode, '' included.
C8_VideoUrlIsAudioFallback ==
    \A w \in Workers :
        (/\ pc[w] \in {"ffmpeg", "done"}
         /\ job[w].resolved # None
         /\ cfg.video_mode \in VideoModes \ {"best"}
         /\ audio_only_streams(job[w].resolved[1].formats) = <<>>
         /\ video_with_audio_streams(job[w].resolved[1].formats) # <<>>) =>
            LET formats == job[w].resolved[1].formats
            IN  /\ get_best_audio_format(formats) = None
                /\ Len(calls_made(w)) >= 1
                /\ calls_made(w)[1].stage = "audio"
                /\ \E i \in 1..Len(formats) :
                      /\ formats[i].vcodec # "none"
                      /\ calls_made(w)[1].sources = <<formats[i].url>>

\* C9: no outcome of an attempt makes ffmpeg() raise: a call that has run a
\* command never ends by raising, whichever call of download_yt_video it is.
C9_NoAttemptOutcomeRaises ==
    \A w \in Workers :
        (pc[w] = "ffmpeg" /\ ff[w].status = "raised") => Len(hist[w]) = 0

\* C10: in mode 'bestvideowithaudio', once download_yt_video is past the
\* merge call: after a successful merge the final video path holds the
\* merged file and the '_merge' path is gone; after a merge call that did
\* not succeed the final video path does not hold the merge output.
C10_MergeReplacesOnlyOnSuccess ==
    \A w \in Workers :
        (/\ pc[w] = "done"
         /\ Len(calls[w]) >= 1
         /\ calls[w][Len(calls[w])].stage = "merge") =>
            LET m == calls[w][Len(calls[w])]
                video == loc[w].video_filepath
            IN  /\ m.term = "success" =>
                      /\ exists(fs, video)
                      /\ fs[video].by = "merge"
                      /\ ~exists(fs, m.output_path)
                /\ m.term \in {"exhausted", "raised"} =>
                      ~(exists(fs, video) /\ fs[video].by = "merge")


====
